---- MODULE Spec2Model ----
(***************************************************************************)
(* SkyArchive data service (js/services/dataService.js): the SQM text      *)
(* parser, the median, and the sqmCache memoization around the fetch.      *)
(*                                                                         *)
(* Strings are sequences of one-character strings.  Numbers are records:   *)
(* a finite number is [k |-> "fin", v |-> n] with n in thousandths, and    *)
(* the three non-finite doubles are PosInf, NegInf and NaN.  null is Null. *)
(***************************************************************************)
EXTENDS Integers, Sequences, FiniteSets, TLC

-----------------------------------------------------------------------------
(* Numbers (IEEE doubles restricted to thousandths and the non-finite ones) *)

Fin(n) == [k |-> "fin", v |-> n]
PosInf == [k |-> "inf", v |-> 1]
NegInf == [k |-> "inf", v |-> -1]
NaN    == [k |-> "nan", v |-> 0]
Null   == [k |-> "null", v |-> 0]

\* Number(n): the double written n in the source (whole units).
Num(n) == Fin(n * 1000)

isNaN(x) == x.k = "nan"

\* a <= b on doubles: false as soon as one side is NaN.
Leq(a, b) ==
    /\ a.k # "nan" /\ b.k # "nan"
    /\ \/ a.k = "fin" /\ b.k = "fin" /\ a.v <= b.v
       \/ a.k = "inf" /\ a.v = -1
       \/ b.k = "inf" /\ b.v = 1

Geq(a, b) == Leq(b, a)

\* a > b on doubles: false as soon as one side is NaN.
Gt(a, b) == a.k # "nan" /\ b.k # "nan" /\ ~Leq(a, b)

\* a + b on doubles.
Add(a, b) ==
    IF a.k = "nan" \/ b.k = "nan" THEN NaN
    ELSE IF a.k = "inf" /\ b.k = "inf" THEN (IF a.v = b.v THEN a ELSE NaN)
    ELSE IF a.k = "inf" THEN a
    ELSE IF b.k = "inf" THEN b
    ELSE Fin(a.v + b.v)

\* a / 2 on doubles (exact on the inputs used: sums of tenths).
Half(a) == IF a.k = "fin" THEN Fin(a.v \div 2) ELSE a

\* The comparator (a, b) => a - b of the sort: a negative, zero or positive
\* result; a NaN result (Infinity - Infinity) counts as zero.
CompareFn(a, b) ==
    IF a.k = "fin" /\ b.k = "fin" THEN a.v - b.v
    ELSE IF a.k = "inf" /\ b.k = "inf" THEN (IF a.v = b.v THEN 0 ELSE a.v)
    ELSE IF a.k = "inf" THEN a.v
    ELSE IF b.k = "inf" THEN 0 - b.v
    ELSE 0

-----------------------------------------------------------------------------
(* String primitives of the JavaScript runtime used by the parser          *)

IsWhitespace(c) == c \in {" ", "\t", "\r", "\n"}

IsDigit(c) == c \in {"0", "1", "2", "3", "4", "5", "6", "7", "8", "9"}

DigitVal(c) ==
    CASE c = "0" -> 0 [] c = "1" -> 1 [] c = "2" -> 2 [] c = "3" -> 3
      [] c = "4" -> 4 [] c = "5" -> 5 [] c = "6" -> 6 [] c = "7" -> 7
      [] c = "8" -> 8 [] c = "9" -> 9

\* s.slice(i) with i counted from 1.
Drop(s, i) == SubSeq(s, i, Len(s))

\* textData.split('\n'): always at least one piece, "" splits into [""].
RECURSIVE SplitNewline(_)
SplitNewline(s) ==
    IF \A i \in 1..Len(s) : s[i] # "\n" THEN <<s>>
    ELSE LET p == CHOOSE i \in 1..Len(s) :
                      s[i] = "\n" /\ \A j \in 1..(i - 1) : s[j] # "\n"
         IN <<SubSeq(s, 1, p - 1)>> \o SplitNewline(Drop(s, p + 1))

RECURSIVE TrimStart(_)
TrimStart(s) ==
    IF Len(s) > 0 /\ IsWhitespace(s[1]) THEN TrimStart(Tail(s)) ELSE s

RECURSIVE TrimEnd(_)
TrimEnd(s) ==
    IF Len(s) > 0 /\ IsWhitespace(s[Len(s)])
    THEN TrimEnd(SubSeq(s, 1, Len(s) - 1)) ELSE s

\* line.trim()
Trim(s) == TrimEnd(TrimStart(s))

\* s.startsWith('#')
StartsWithHash(s) == Len(s) > 0 /\ s[1] = "#"

\* s.split(/\s+/) for a trimmed, non-empty s: the maximal runs of
\* non-whitespace characters, in order.
RECURSIVE SplitWhitespace(_)
SplitWhitespace(s) ==
    IF Len(s) = 0 THEN <<>>
    ELSE IF IsWhitespace(s[1]) THEN SplitWhitespace(TrimStart(s))
    ELSE LET n == IF \E i \in 1..Len(s) : IsWhitespace(s[i])
                  THEN (CHOOSE i \in 1..Len(s) :
                           IsWhitespace(s[i]) /\ \A j \in 1..(i - 1) : ~IsWhitespace(s[j])) - 1
                  ELSE Len(s)
         IN <<SubSeq(s, 1, n)>> \o SplitWhitespace(Drop(s, n + 1))

\* The value of the longest run of digits at the start of s, and its length.
RECURSIVE DigitRun(_, _, _)
DigitRun(s, acc, n) ==
    IF Len(s) > 0 /\ IsDigit(s[1])
    THEN DigitRun(Tail(s), acc * 10 + DigitVal(s[1]), n + 1)
    ELSE [val |-> acc, len |-> n]

InfinityLiteral == <<"I", "n", "f", "i", "n", "i", "t", "y">>

HasPrefix(s, p) == Len(s) >= Len(p) /\ SubSeq(s, 1, Len(p)) = p

\* The unsigned part of parseFloat: "Infinity", or digits with an optional
\* fraction, or a fraction alone; anything after the longest such prefix is
\* ignored, and no such prefix gives NaN.  Fractions keep three digits;
\* exponents do not occur in the inputs.
ParseUnsigned(s) ==
    IF HasPrefix(s, InfinityLiteral) THEN PosInf
    ELSE LET ip   == DigitRun(s, 0, 0)
             rest == Drop(s, ip.len + 1)
             fp   == IF Len(rest) > 0 /\ rest[1] = "."
                     THEN DigitRun(Tail(rest), 0, 0)
                     ELSE [val |-> 0, len |-> 0]
             frac == CASE fp.len = 0 -> 0
                       [] fp.len = 1 -> fp.val * 100
                       [] fp.len = 2 -> fp.val * 10
                       [] fp.len = 3 -> fp.val
                       [] OTHER      -> fp.val \div (10 ^ (fp.len - 3))
         IN IF ip.len = 0 /\ fp.len = 0 THEN NaN
            ELSE Fin(ip.val * 1000 + frac)

Negate(x) == IF x.k = "nan" THEN x ELSE [x EXCEPT !.v = 0 - x.v]

\* parseFloat(s)
parseFloat(s) ==
    LET t == TrimStart(s)
    IN IF Len(t) > 0 /\ t[1] = "-" THEN Negate(ParseUnsigned(Tail(t)))
       ELSE IF Len(t) > 0 /\ t[1] = "+" THEN ParseUnsigned(Tail(t))
       ELSE ParseUnsigned(t)

-----------------------------------------------------------------------------
(* calculateMedian                                                         *)

\* Position of x in the stable ascending sort: after every element that
\* does not compare greater than x.
RECURSIVE InsertSorted(_, _)
InsertSorted(sorted, x) ==
    IF Len(sorted) = 0 THEN <<x>>
    ELSE IF CompareFn(Head(sorted), x) <= 0
         THEN <<Head(sorted)>> \o InsertSorted(Tail(sorted), x)
         ELSE <<x>> \o sorted

\* Mutant of SortNumeric: the array is left in its order.
Unsorted(numbers) == numbers

\* [...numbers].sort((a, b) => a - b)
RECURSIVE SortNumeric(_)
SortNumeric(numbers) ==
    IF Len(numbers) = 0 THEN <<>>
    ELSE InsertSorted(SortNumeric(SubSeq(numbers, 1, Len(numbers) - 1)),
                      numbers[Len(numbers)])

calculateMedian(numbers) ==
    IF Len(numbers) = 0 THEN Null
    ELSE LET sorted      == SortNumeric(numbers)
             middleIndex == Len(sorted) \div 2
         IN IF Len(sorted) % 2 = 0
            THEN Half(Add(sorted[middleIndex], sorted[middleIndex + 1]))
            ELSE sorted[middleIndex + 1]

-----------------------------------------------------------------------------
(* The parsing loop of fetchAndParseSqm                                    *)

\* The loop's locals before the first line.
ParserStart ==
    [dataStarted |-> FALSE, sqmValuesForMedian |-> <<>>,
     allSqmValues |-> <<>>, polarData |-> <<>>]

\* Mutant of IsHeaderLine: only comments belong to the header, a blank
\* line starts the data.
IsHeaderLineCommentOnly(line) == StartsWithHash(Trim(line))

\* The header test: before data start, a line that is a comment or blank
\* is skipped and leaves dataStarted false.
IsHeaderLine(line) == ~(~StartsWithHash(Trim(line)) /\ Len(Trim(line)) > 0)

\* if (!isNaN(mag))
MagAccepted(mag) == ~isNaN(mag)

\* Mutant of PolarAccepted: the upper bounds are exclusive.
PolarAcceptedExclusive(time, alt, azi) ==
    /\ Len(time) > 0
    /\ ~isNaN(alt) /\ Geq(alt, Num(0)) /\ Gt(Num(90), alt)
    /\ ~isNaN(azi) /\ Geq(azi, Num(0)) /\ Gt(Num(360), azi)

\* The condition under which a line is pushed to polarData.  time is a
\* string, truthy exactly when non-empty.
PolarAccepted(time, alt, azi) ==
    /\ Len(time) > 0
    /\ ~isNaN(alt) /\ Geq(alt, Num(0)) /\ Leq(alt, Num(90))
    /\ ~isNaN(azi) /\ Geq(azi, Num(0)) /\ Leq(azi, Num(360))

\* Mutant of MedianAccepted: altitude 45 counts as high.
MedianAcceptedInclusive(alt) == ~isNaN(alt) /\ Geq(alt, Num(45))

\* The condition under which a magnitude is pushed to sqmValuesForMedian.
MedianAccepted(alt) == ~isNaN(alt) /\ Gt(alt, Num(45))

\* Mutant of Push: the element goes to the front (unshift).
Unshift(array, x) == <<x>> \o array

\* array.push(x)
Push(array, x) == Append(array, x)

\* Mutant of ProcessColumns: eight columns are enough; the missing ninth
\* reads as undefined and parses to NaN.
ProcessColumnsFromEight(st, columns) ==
    IF Len(columns) >= 8
    THEN LET time == columns[3]
             mag  == parseFloat(columns[6])
             alt  == parseFloat(columns[8])
             azi  == IF Len(columns) >= 9 THEN parseFloat(columns[9]) ELSE NaN
         IN IF MagAccepted(mag)
            THEN [st EXCEPT
                    !.allSqmValues = Push(@, mag),
                    !.polarData =
                        IF PolarAccepted(time, alt, azi)
                        THEN Push(@, [time |-> time, mag |-> mag, alt |-> alt, azi |-> azi])
                        ELSE @,
                    !.sqmValuesForMedian =
                        IF MedianAccepted(alt) THEN Push(@, mag) ELSE @]
            ELSE st
    ELSE st

\* The body of the loop for the columns of one line.
ProcessColumns(st, columns) ==
    IF Len(columns) >= 9
    THEN LET time == columns[3]
             mag  == parseFloat(columns[6])
             alt  == parseFloat(columns[8])
             azi  == parseFloat(columns[9])
         IN IF MagAccepted(mag)
            THEN [st EXCEPT
                    !.allSqmValues = Push(@, mag),
                    !.polarData =
                        IF PolarAccepted(time, alt, azi)
                        THEN Push(@, [time |-> time, mag |-> mag, alt |-> alt, azi |-> azi])
                        ELSE @,
                    !.sqmValuesForMedian =
                        IF MedianAccepted(alt) THEN Push(@, mag) ELSE @]
            ELSE st
    ELSE st

\* One iteration of for (const line of lines).
ProcessLine(st, line) ==
    IF ~st.dataStarted /\ IsHeaderLine(line) THEN st
    ELSE LET started == [st EXCEPT !.dataStarted = TRUE]
         IN IF Len(Trim(line)) = 0 THEN started
            ELSE ProcessColumns(started, SplitWhitespace(Trim(line)))

\* The object built after the loop.
BuildProcessedData(st) ==
    [medianSqm    |-> IF Len(st.sqmValuesForMedian) > 0
                      THEN calculateMedian(st.sqmValuesForMedian)
                      ELSE Null,
     allSqmValues |-> st.allSqmValues,
     polarData    |-> st.polarData]

RECURSIVE ProcessLines(_, _)
ProcessLines(st, ls) ==
    IF Len(ls) = 0 THEN st ELSE ProcessLines(ProcessLine(st, Head(ls)), Tail(ls))

\* The synchronous part of fetchAndParseSqm from the text to the result.
ParseSqmText(textData) ==
    BuildProcessedData(ProcessLines(ParserStart, SplitNewline(textData)))

\* The result returned from the catch block.
EmptyResult == [medianSqm |-> Null, allSqmValues |-> <<>>, polarData |-> <<>>]

-----------------------------------------------------------------------------
(* Inputs: measurement texts built from a pool of lines                    *)

MaxLines == 2

RECURSIVE JoinWith(_, _)
JoinWith(pieces, sep) ==
    IF Len(pieces) = 0 THEN <<>>
    ELSE IF Len(pieces) = 1 THEN pieces[1]
    ELSE pieces[1] \o sep \o JoinWith(Tail(pieces), sep)

\* A nine-column measurement row: time in column 2, magnitude in column 5,
\* altitude in column 7, azimuth in column 8 (columns counted from 0).
Row(mag, alt, azi) ==
    JoinWith(<< <<"a">>, <<"b">>, <<"t">>, <<"c">>, <<"d">>, mag, <<"g">>, alt, azi >>,
             <<" ">>)

LinePool ==
    { <<>>,                                                               \* blank
      <<" ", "\t">>,                                                      \* whitespace only
      <<"#", " ", "h">>,                                                  \* short comment
      <<"#", " ", "b", " ", "t", " ", "c", " ", "d", " ", "2", "1", " ",
        "g", " ", "5", "0", " ", "1", "0">>,                              \* comment, 9 columns
      <<"a", " ", "b", " ", "t", " ", "c", " ", "d", " ", "2", "0", " ",
        "g", " ", "5", "0">>,                                             \* 8 columns
      Row(<<"2", "0", ".", "5">>, <<"4", "6">>, <<"1", "0">>),
      Row(<<"2", "1">>, <<"4", "5">>, <<"3", "6", "0">>),
      Row(<<"1", "9">>, <<"3", "0">>, <<"4", "0", "0">>),
      Row(<<"1", "8">>, <<"x">>, <<"0">>),
      Row(<<"2", "2">>, <<"9", "1">>, <<"x">>),
      Row(<<"1", "7", ".", "5">>, <<"9", "0">>, <<"-", "1">>),
      Row(<<"x">>, <<"4", "6">>, <<"1", "0">>),
      Row(<<"I", "n", "f", "i", "n", "i", "t", "y">>, <<"5", "0">>, <<"1", "0">>),
      <<" ", " ">> \o Row(<<"2", "3">>, <<"0">>, <<"3", "6", "1">>) \o <<"\r">> }

\* Every text of at most MaxLines lines of the pool, joined by newlines.
ParseInputs ==
    UNION { { JoinWith(ls, <<"\n">>) : ls \in [1..n -> LinePool] } : n \in 0..MaxLines }

-----------------------------------------------------------------------------
(* State                                                                   *)

VARIABLES
    \* the parser run step by step
    ppc,                 \* "idle" | "loop" | "done"
    textData,            \* the text handed to the parser
    lines,               \* textData.split('\n')
    lineIdx,             \* number of lines already iterated
    dataStarted,
    sqmValuesForMedian,
    allSqmValues,
    polarData,
    processedData,       \* the object built after the loop, or Null
    previousData,        \* the object an earlier parse of textData built, or Null
    \* the data service
    sqmCache,            \* url -> cached object or NoEntry
    calls,               \* invocations of fetchAndParseSqm
    \* a call of calculateMedian
    mpc,                 \* "off" | "call" | "returned"
    numbers,             \* the caller's argument
    numbersAtCall,       \* the argument as it was when the call was made
    medianResult,
    \* a call of createHistogram
    hpc,                 \* "off" | "loop" | "done"
    sqmValues,           \* the values to bucket
    valueIdx,            \* number of values already visited by forEach
    bins,
    \* a map marker
    kpc,                 \* "off" | "raw" | "item" | "marker"
    sqmResultMedian,     \* sqmResult.medianSqm of the item
    itemMedianSqm,       \* item.medianSqm, a string
    markerColor,
    \* loadAndProcessData and the page
    lpc,                 \* position in loadAndProcessData
    panoFetch,           \* fetch(panoManifestPath)
    astroFetch,          \* fetch(astroManifestPath)
    panoManifest,
    astroManifest,
    maxFeatured,         \* MAX_FEATURED_PANORAMAS_CONFIG
    uiData,              \* the argument initializeUI received, or NoData
    errorBanner,         \* the global error container is displayed
    errorDisplays,       \* number of displayGlobalErrorMessage calls
    \* the lightbox of the gallery service
    currentAstroGalleryIndex,
    astroGalleryItems,
    lightboxExists,      \* the element lightbox-overlay was created
    lightboxDisplay,     \* lightbox.style.display
    lightboxVisible,     \* the overlay has the class 'visible'
    imgSrc,              \* src of the image of the lightbox
    prevArrow,           \* style.display of the arrows
    nextArrow,
    bodyOverflow,        \* document.body.style.overflow
    hideTimers,          \* pending 300 ms callbacks of closeLightbox
    showTimers,          \* pending 10 ms callbacks of openLightbox
    lightboxEvent,       \* the handler that ran last
    \* the translations of the page
    currentLanguage,
    translations,        \* the content of a locale file, or NoTranslations
    documentLang,        \* document.documentElement.lang
    langCalls            \* top-level calls of loadTranslations

parseVars == <<ppc, textData, lines, lineIdx, dataStarted, sqmValuesForMedian,
               allSqmValues, polarData, processedData, previousData>>
serviceVars == <<sqmCache, calls>>
medianVars == <<mpc, numbers, numbersAtCall, medianResult>>
histVars == <<hpc, sqmValues, valueIdx, bins>>
markerVars == <<kpc, sqmResultMedian, itemMedianSqm, markerColor>>
statVars == <<medianVars, histVars, markerVars>>
loadVars == <<lpc, panoFetch, astroFetch, panoManifest, astroManifest, maxFeatured,
              uiData, errorBanner, errorDisplays>>
lightboxVars == <<currentAstroGalleryIndex, astroGalleryItems, lightboxExists,
                  lightboxDisplay, lightboxVisible, imgSrc, prevArrow, nextArrow,
                  bodyOverflow, hideTimers, showTimers, lightboxEvent>>
langVars == <<currentLanguage, translations, documentLang, langCalls>>
pageVars == <<lightboxVars, langVars>>
vars == <<parseVars, serviceVars, statVars,
                   loadVars, pageVars>>

\* What the variables of a part hold while that part is not running.
\* An argument that is an array, and the argument left out (undefined).
ArrayArgument(items) == [missing |-> FALSE, items |-> items]
NoArgument == [missing |-> TRUE, items |-> <<>>]

MedianIdle ==
    /\ mpc = "off" /\ numbers = NoArgument /\ numbersAtCall = NoArgument
    /\ medianResult = Null

HistIdle == hpc = "off" /\ sqmValues = NoArgument /\ valueIdx = 0 /\ bins = <<>>

MarkerIdle ==
    kpc = "off" /\ sqmResultMedian = Null /\ itemMedianSqm = <<>> /\ markerColor = ""

NoData == [panoData |-> <<>>, astroData |-> <<>>, undefined |-> TRUE]

LoadIdle ==
    /\ lpc = "off" /\ panoFetch = "none" /\ astroFetch = "none"
    /\ panoManifest = <<>> /\ astroManifest = <<>> /\ maxFeatured = 0
    /\ uiData = NoData /\ errorBanner = FALSE /\ errorDisplays = 0

\* img src="" of the markup of the lightbox, and imgElement.src = "".
EmptySrc == <<>>

\* let currentAstroGalleryIndex = 0; let astroGalleryItems = []; no
\* lightbox element yet.
LightboxIdle ==
    /\ currentAstroGalleryIndex = 0 /\ astroGalleryItems = <<>>
    /\ lightboxExists = FALSE /\ lightboxDisplay = "" /\ lightboxVisible = FALSE
    /\ imgSrc = EmptySrc /\ prevArrow = "" /\ nextArrow = ""
    /\ bodyOverflow = "" /\ hideTimers = 0 /\ showTimers = 0
    /\ lightboxEvent = "none"

MaxLangCalls == 2

LangCalls == 1..MaxLangCalls

\* let translations = {}
NoTranslations == [language |-> "none"]

LangNotCalled == [pc |-> "idle", lang |-> "", loading |-> "", fetched |-> <<>>,
                  applied |-> <<>>, errors |-> <<>>]

LangIdle ==
    /\ currentLanguage = "en" /\ translations = NoTranslations
    /\ documentLang = "en"
    /\ langCalls = [c \in LangCalls |-> LangNotCalled]

PageIdle == LightboxIdle /\ LangIdle

-----------------------------------------------------------------------------
(* The parser, one loop iteration per step                                 *)

ParseIdle ==
    /\ ppc = "idle" /\ textData = <<>> /\ lines = <<>> /\ lineIdx = 0
    /\ dataStarted = FALSE /\ sqmValuesForMedian = <<>>
    /\ allSqmValues = <<>> /\ polarData = <<>> /\ processedData = Null
    /\ previousData = Null

\* The locals of the loop as one record.
ParserState ==
    [dataStarted |-> dataStarted, sqmValuesForMedian |-> sqmValuesForMedian,
     allSqmValues |-> allSqmValues, polarData |-> polarData]

\* Mutant of SplitText: the three arrays are not declared anew, they live
\* on from the previous parse.
SplitTextKeepingArrays ==
    /\ ppc = "idle"
    /\ lines' = SplitNewline(textData)
    /\ lineIdx' = 0
    /\ dataStarted' = FALSE
    /\ ppc' = "loop"
    /\ UNCHANGED <<sqmValuesForMedian, allSqmValues, polarData, textData, processedData,
                   previousData, serviceVars, statVars,
                   loadVars, pageVars>>

\* const lines = textData.split('\n') and the declarations of the locals.
SplitText ==
    /\ ppc = "idle"
    /\ lines' = SplitNewline(textData)
    /\ lineIdx' = 0
    /\ dataStarted' = ParserStart.dataStarted
    /\ sqmValuesForMedian' = ParserStart.sqmValuesForMedian
    /\ allSqmValues' = ParserStart.allSqmValues
    /\ polarData' = ParserStart.polarData
    /\ ppc' = "loop"
    /\ UNCHANGED <<textData, processedData, previousData, serviceVars, statVars,
                   loadVars, pageVars>>

\* One iteration of the for loop.
ParseLine ==
    /\ ppc = "loop"
    /\ lineIdx < Len(lines)
    /\ LET st == ProcessLine(ParserState, lines[lineIdx + 1])
       IN /\ dataStarted' = st.dataStarted
          /\ sqmValuesForMedian' = st.sqmValuesForMedian
          /\ allSqmValues' = st.allSqmValues
          /\ polarData' = st.polarData
    /\ lineIdx' = lineIdx + 1
    /\ UNCHANGED <<ppc, textData, lines, processedData, previousData, serviceVars,
                   statVars, loadVars, pageVars>>

\* After the loop: the median and the result object.
ParseFinish ==
    /\ ppc = "loop"
    /\ lineIdx = Len(lines)
    /\ processedData' = BuildProcessedData(ParserState)
    /\ ppc' = "done"
    /\ UNCHANGED <<textData, lines, lineIdx, dataStarted, sqmValuesForMedian,
                   allSqmValues, polarData, previousData, serviceVars, statVars,
                   loadVars, pageVars>>

\* The same text reaches the parser a second time (a later call that was
\* sent the same body): the result of the first parse is kept for
\* comparison; the locals are declared anew by the next SplitText.
ParseAgain ==
    /\ ppc = "done"
    /\ previousData = Null
    /\ previousData' = processedData
    /\ ppc' = "idle"
    /\ UNCHANGED <<textData, lines, lineIdx, dataStarted, sqmValuesForMedian,
                   allSqmValues, polarData, processedData, serviceVars, statVars,
                   loadVars, pageVars>>

-----------------------------------------------------------------------------
(* fetchAndParseSqm and sqmCache                                           *)

MaxCalls == 3

Calls == 1..MaxCalls

Urls == {"sqm/a.txt", "sqm/b.txt"}

\* What the server may send as the body of a measurement file.
SqmBodies ==
    { Row(<<"2", "0", ".", "5">>, <<"4", "6">>, <<"1", "0">>),
      JoinWith(<< <<"#", " ", "h">>,
                  Row(<<"1", "9">>, <<"3", "0">>, <<"4", "0", "0">>) >>, <<"\n">>) }

\* sqmCache[url] when nothing was stored under url.
NoEntry == [medianSqm |-> Null, allSqmValues |-> <<>>, polarData |-> <<>>, undefined |-> TRUE]

\* Mutant of CacheHit: the cache is never consulted.
CacheNeverHit(cache, url) == FALSE

\* if (sqmCache[sqmFileUrl])
CacheHit(cache, url) == cache[url] # NoEntry

\* Mutant of StoreInCache: a second store for a url appends to the arrays of
\* the entry already there (accumulators shared between calls).
StoreAccumulating(cache, url, data) ==
    IF cache[url].allSqmValues = <<>> THEN [cache EXCEPT ![url] = data]
    ELSE [cache EXCEPT ![url] =
            [medianSqm |-> data.medianSqm,
             allSqmValues |-> @.allSqmValues \o data.allSqmValues,
             polarData |-> @.polarData \o data.polarData]]

\* sqmCache[sqmFileUrl] = processedData
StoreInCache(cache, url, data) == [cache EXCEPT ![url] = data]

\* The promise of an async call.
Fulfilled(value) == [state |-> "fulfilled", value |-> value]
Rejected == [state |-> "rejected", value |-> NoEntry]
Pending == [state |-> "pending", value |-> NoEntry]

\* Mutant of CatchHandler: the error escapes the call.
CatchRethrows(error) == Rejected

\* catch (error) { ...; return {medianSqm: null, allSqmValues: [], polarData: []} }
CatchHandler(error) == Fulfilled(EmptyResult)

NotCalled ==
    [pc |-> "idle", url |-> "", body |-> <<>>, promise |-> Pending,
     fetches |-> 0, parses |-> 0, error |-> ""]

\* The call record after fetchAndParseSqm(url) ran up to its first await
\* or, on a cache hit, to its return.
Invoked(call, cache, url) ==
    IF CacheHit(cache, url)
    THEN [call EXCEPT !.pc = "done", !.url = url, !.promise = Fulfilled(cache[url])]
    ELSE [call EXCEPT !.pc = "awaitFetch", !.url = url, !.fetches = @ + 1]

\* A call of fetchAndParseSqm(url), up to its first await or its return.
Invoke(c, url) ==
    /\ calls[c].pc = "idle"
    /\ calls' = [calls EXCEPT ![c] = Invoked(@, sqmCache, url)]
    /\ UNCHANGED <<sqmCache, parseVars, pageVars, statVars, loadVars>>

\* Mutant of CacheAfterFailure: the catch block stores what it returns.
CacheAfterFailureStored(cache, url) == StoreInCache(cache, url, EmptyResult)

\* The cache after the catch block ran for url: the block logs and returns,
\* it has no store.
CacheAfterFailure(cache, url) == cache

\* fetch(sqmFileUrl) rejects (network error).
FetchRejects(c) ==
    /\ calls[c].pc = "awaitFetch"
    /\ calls' = [calls EXCEPT ![c] =
            [@ EXCEPT !.pc = "done", !.error = "network",
                      !.promise = CatchHandler("network")]]
    /\ sqmCache' = CacheAfterFailure(sqmCache, calls[c].url)
    /\ UNCHANGED <<parseVars, pageVars, statVars, loadVars>>

\* fetch(sqmFileUrl) resolves to a response; a response that is not ok is
\* thrown as an HTTP error.
FetchResponds(c, ok) ==
    /\ calls[c].pc = "awaitFetch"
    /\ IF ~ok
       THEN /\ calls' = [calls EXCEPT ![c] =
                [@ EXCEPT !.pc = "done", !.error = "http",
                          !.promise = CatchHandler("http")]]
            /\ sqmCache' = CacheAfterFailure(sqmCache, calls[c].url)
       ELSE /\ calls' = [calls EXCEPT ![c] = [@ EXCEPT !.pc = "awaitText"]]
            /\ UNCHANGED sqmCache
    /\ UNCHANGED <<parseVars, pageVars, statVars, loadVars>>

\* response.text() rejects (the body could not be read).
TextRejects(c) ==
    /\ calls[c].pc = "awaitText"
    /\ calls' = [calls EXCEPT ![c] =
            [@ EXCEPT !.pc = "done", !.error = "body",
                      !.promise = CatchHandler("body")]]
    /\ sqmCache' = CacheAfterFailure(sqmCache, calls[c].url)
    /\ UNCHANGED <<parseVars, pageVars, statVars, loadVars>>

\* response.text() resolves: the text is parsed, the result is stored in
\* the cache and returned, without another await in between.
TextResolves(c, body) ==
    /\ calls[c].pc = "awaitText"
    /\ LET data == ParseSqmText(body)
       IN /\ sqmCache' = StoreInCache(sqmCache, calls[c].url, data)
          /\ calls' = [calls EXCEPT ![c] =
                [@ EXCEPT !.pc = "done", !.body = body, !.parses = @ + 1,
                          !.promise = Fulfilled(data)]]
    /\ UNCHANGED <<parseVars, pageVars, statVars, loadVars>>

-----------------------------------------------------------------------------
(* Specifications                                                          *)

ServiceIdle ==
    /\ sqmCache = [u \in Urls |-> NoEntry]
    /\ calls = [c \in Calls |-> NotCalled]

\* The data service: any callers, any transport outcomes.
Init == ParseIdle /\ ServiceIdle /\ MedianIdle /\ HistIdle /\ MarkerIdle /\ LoadIdle
    /\ PageIdle

Next ==
    \/ \E c \in Calls, u \in Urls : Invoke(c, u)
    \/ \E c \in Calls : FetchRejects(c)
    \/ \E c \in Calls, ok \in BOOLEAN : FetchResponds(c, ok)
    \/ \E c \in Calls : TextRejects(c)
    \/ \E c \in Calls, body \in SqmBodies : TextResolves(c, body)

Spec == Init /\ [][Next]_vars

\* The parser alone, on every text of ParseInputs.
InitParse ==
    /\ ppc = "idle" /\ textData \in ParseInputs /\ lines = <<>> /\ lineIdx = 0
    /\ dataStarted = FALSE /\ sqmValuesForMedian = <<>>
    /\ allSqmValues = <<>> /\ polarData = <<>> /\ processedData = Null
    /\ previousData = Null
    /\ ServiceIdle /\ MedianIdle /\ HistIdle /\ MarkerIdle /\ LoadIdle
    /\ PageIdle

NextParse == SplitText \/ ParseLine \/ ParseFinish \/ ParseAgain

SpecParse == InitParse /\ [][NextParse]_vars

-----------------------------------------------------------------------------
(* Properties of fetchAndParseSqm and sqmCache (specification Spec)        *)

\* Number of transport invocations, and of parser runs, for a url so far.
RECURSIVE TransportInvocations(_, _)
TransportInvocations(url, n) ==
    IF n = 0 THEN 0
    ELSE TransportInvocations(url, n - 1)
         + (IF calls[n].url = url THEN calls[n].fetches ELSE 0)

RECURSIVE ParserRuns(_, _)
ParserRuns(url, n) ==
    IF n = 0 THEN 0
    ELSE ParserRuns(url, n - 1)
         + (IF calls[n].url = url THEN calls[n].parses ELSE 0)

\* C1: over all requests of a run, overlapping or not, the transport is
\* invoked at most once and the text parsed at most once per url.
C1_DerivedAtMostOnce ==
    \A u \in Urls :
        /\ TransportInvocations(u, MaxCalls) <= 1
        /\ ParserRuns(u, MaxCalls) <= 1

\* The calls for url that ran the parser.
ParsedCalls(url) == {c \in Calls : calls[c].url = url /\ calls[c].parses > 0}

\* C2: when every request for a url that reached the parser received the
\* same text, every request for that url that did not fail resolves to the
\* parse of that text, and so does the cache entry, however the requests
\* interleave.
C2_RaceOnlyDuplicatesParse ==
    \A u \in Urls : \A t \in SqmBodies :
        (/\ ParsedCalls(u) # {}
         /\ \A c \in ParsedCalls(u) : calls[c].body = t)
        => /\ sqmCache[u] = ParseSqmText(t)
           /\ \A c \in Calls :
                (calls[c].url = u /\ calls[c].pc = "done" /\ calls[c].error = "")
                => calls[c].promise = Fulfilled(ParseSqmText(t))

\* Two requests for one url raced, both parsed the same text, both returned.
C2_Witness ==
    \E c1, c2 \in Calls :
        /\ c1 # c2
        /\ calls[c1].url = calls[c2].url
        /\ calls[c1].pc = "done" /\ calls[c2].pc = "done"
        /\ calls[c1].parses = 1 /\ calls[c2].parses = 1
        /\ calls[c1].body = calls[c2].body
        /\ Len(calls[c1].promise.value.allSqmValues) > 0

\* C3: a call made while the cache holds an entry for its url returns that
\* entry at once and does not invoke the transport.
C3_CachedEntryReturnedWithoutFetch ==
    [][\A c \in Calls :
          (/\ calls[c].pc = "idle"
           /\ calls'[c].pc # "idle"
           /\ sqmCache[calls'[c].url] # NoEntry)
          => /\ calls'[c].pc = "done"
             /\ calls'[c].promise = Fulfilled(sqmCache[calls'[c].url])
             /\ calls'[c].fetches = 0
             /\ sqmCache' = sqmCache]_vars

\* A call was answered from the cache.
C3_Witness ==
    \E c \in Calls :
        /\ calls[c].pc = "done" /\ calls[c].fetches = 0
        /\ calls[c].promise = Fulfilled(sqmCache[calls[c].url])

\* C4: an entry of the cache is never removed and never changed by a later
\* step.
C4_EntriesNeverChange ==
    [][\A u \in Urls : sqmCache[u] # NoEntry => sqmCache'[u] = sqmCache[u]]_vars

\* C5: no call rejects; every settled call holds an object with medianSqm,
\* allSqmValues and polarData; a call whose transport failed holds exactly
\* the empty result, ran no parser and invoked the transport once.
C5_NeverRejectsEmptyOnFailure ==
    \A c \in Calls :
        /\ calls[c].promise.state # "rejected"
        /\ calls[c].fetches <= 1
        /\ calls[c].pc = "done"
           => /\ calls[c].promise.state = "fulfilled"
              /\ DOMAIN calls[c].promise.value = {"medianSqm", "allSqmValues", "polarData"}
        /\ calls[c].error # ""
           => /\ calls[c].pc = "done"
              /\ calls[c].promise.value =
                    [medianSqm |-> Null, allSqmValues |-> <<>>, polarData |-> <<>>]
              /\ calls[c].fetches = 1
              /\ calls[c].parses = 0

\* Calls have failed on a network error, on an HTTP status and on the body.
C5_Witness ==
    /\ \E c \in Calls : calls[c].pc = "done" /\ calls[c].error = "network"
    /\ \E c \in Calls : calls[c].pc = "done" /\ calls[c].error = "http"
    /\ \E c \in Calls : calls[c].pc = "done" /\ calls[c].error = "body"

\* The calls for url that have ended in the catch block.
FailedCalls(url) == {c \in Calls : calls[c].url = url /\ calls[c].error # ""}

\* C21: the step in which a call fails leaves the cache as it was; and
\* while a url that had a failed call has no entry, the next call for it
\* goes to the transport again, and a body that then arrives is parsed and
\* stored under the url.
C21_FailureLeavesCacheAlone ==
    [][\A c \in Calls :
          /\ (calls[c].error = "" /\ calls'[c].error # "")
             => sqmCache' = sqmCache
          /\ (/\ calls[c].pc = "idle" /\ calls'[c].pc # "idle"
              /\ FailedCalls(calls'[c].url) # {}
              /\ sqmCache[calls'[c].url] = NoEntry)
             => calls'[c].pc = "awaitFetch" /\ calls'[c].fetches = 1
          /\ (/\ calls[c].pc = "awaitText" /\ calls'[c].parses = 1
              /\ FailedCalls(calls[c].url) # {})
             => /\ sqmCache'[calls[c].url] = calls'[c].promise.value
                /\ sqmCache'[calls[c].url] # NoEntry]_vars

\* The first call for a url failed with an HTTP error, the second call for
\* the same url fetched, parsed and stored the file, and nobody else called.
C21_Witness ==
    /\ calls[1].url = "sqm/a.txt" /\ calls[1].pc = "done" /\ calls[1].error = "http"
    /\ calls[2].url = "sqm/a.txt" /\ calls[2].pc = "done" /\ calls[2].error = ""
    /\ calls[2].fetches = 1 /\ calls[2].parses = 1
    /\ calls[3].pc = "idle"
    /\ sqmCache["sqm/a.txt"] = calls[2].promise.value
    /\ sqmCache["sqm/a.txt"].allSqmValues # <<>>

-----------------------------------------------------------------------------
(* Properties of the parser (specification SpecParse)                      *)

\* The line the next loop iteration reads.
CurrentLine == lines[lineIdx + 1]

\* A step of the loop is about to read a line.
AtLine == ppc = "loop" /\ lineIdx < Len(lines)

\* A line is blank when nothing but whitespace is on it, a comment when the
\* first character that is not whitespace is '#'.
IsBlankLine(line) == \A i \in 1..Len(line) : IsWhitespace(line[i])

IsCommentLine(line) ==
    \E i \in 1..Len(line) :
        line[i] = "#" /\ \A j \in 1..(i - 1) : IsWhitespace(line[j])

\* Data start: the first line that is neither blank nor a comment.
DataStart(ls) ==
    IF \E i \in 1..Len(ls) : ~IsBlankLine(ls[i]) /\ ~IsCommentLine(ls[i])
    THEN CHOOSE i \in 1..Len(ls) :
            /\ ~IsBlankLine(ls[i]) /\ ~IsCommentLine(ls[i])
            /\ \A j \in 1..(i - 1) : IsBlankLine(ls[j]) \/ IsCommentLine(ls[j])
    ELSE Len(ls) + 1

\* The fields of a line that the parser reads.
RowOf(line) ==
    LET columns == SplitWhitespace(Trim(line))
    IN [time |-> columns[3], mag |-> parseFloat(columns[6]),
        alt |-> parseFloat(columns[8]), azi |-> parseFloat(columns[9])]

\* A parsed line: at or after data start, not blank, at least 9 fields and
\* a magnitude that parses.
IsParsedLine(ls, i) ==
    /\ i >= DataStart(ls)
    /\ ~IsBlankLine(ls[i])
    /\ Len(SplitWhitespace(Trim(ls[i]))) >= 9
    /\ RowOf(ls[i]).mag.k # "nan"

\* The rows of the parsed lines among the first n lines, in line order.
RECURSIVE ParsedRows(_, _)
ParsedRows(ls, n) ==
    IF n = 0 THEN <<>>
    ELSE ParsedRows(ls, n - 1)
         \o (IF IsParsedLine(ls, n) THEN <<RowOf(ls[n])>> ELSE <<>>)

MagsOf(rows) == [i \in 1..Len(rows) |-> rows[i].mag]

\* C6: a step that reads a line whose trimmed form starts with '#' changes
\* none of allSqmValues, polarData and sqmValuesForMedian, before or after
\* data start.
C6_CommentLinesAlwaysSkipped ==
    [][(AtLine /\ IsCommentLine(CurrentLine))
       => UNCHANGED <<allSqmValues, polarData, sqmValuesForMedian>>]_vars

\* C7: every element of allSqmValues is a finite number, and so is every
\* magnitude held in polarData and sqmValuesForMedian.
C7_OnlyFiniteMagnitudes ==
    /\ \A i \in 1..Len(allSqmValues) : allSqmValues[i].k = "fin"
    /\ \A i \in 1..Len(polarData) : polarData[i].mag.k = "fin"
    /\ \A i \in 1..Len(sqmValuesForMedian) : sqmValuesForMedian[i].k = "fin"

\* Altitude parsed and strictly above 45 degrees.
IsHighAltitude(row) ==
    /\ row.alt.k # "nan"
    /\ \/ row.alt.k = "inf" /\ row.alt.v = 1
       \/ row.alt.k = "fin" /\ row.alt.v > 45 * 1000

HighAltitudeRows(ls, n) == SelectSeq(ParsedRows(ls, n), IsHighAltitude)

\* C8: the median buffer holds exactly the magnitudes of the parsed lines
\* whose altitude parses and is strictly greater than 45; the reported
\* median is the median of that buffer and is null exactly when no parsed
\* line has such an altitude.
C8_MedianOfHighAltitudeOnly ==
    /\ ppc \in {"loop", "done"}
       => sqmValuesForMedian = MagsOf(HighAltitudeRows(lines, lineIdx))
    /\ ppc = "done"
       => LET high == MagsOf(HighAltitudeRows(lines, Len(lines)))
          IN /\ (processedData.medianSqm = Null) <=> (high = <<>>)
             /\ high # <<>> => processedData.medianSqm = calculateMedian(high)

\* A parse finished with a median while lines at altitude 45 or below, or
\* with no altitude, were parsed too.
C8_Witness ==
    /\ ppc = "done"
    /\ processedData.medianSqm # Null
    /\ Len(allSqmValues) > Len(sqmValuesForMedian)

\* Time present, altitude parsed and within [0, 90], azimuth parsed and
\* within [0, 360].
InRange(x, lo, hi) == x.k = "fin" /\ lo * 1000 <= x.v /\ x.v <= hi * 1000

IsPolarRow(row) ==
    /\ row.time # <<>>
    /\ InRange(row.alt, 0, 90)
    /\ InRange(row.azi, 0, 360)

\* C9: polarData holds exactly the parsed lines with a time, an altitude in
\* [0, 90] and an azimuth in [0, 360], bounds included; a parsed line left
\* out of polarData still has its magnitude in allSqmValues.
C9_PolarSamplesFilter ==
    ppc \in {"loop", "done"}
    => LET rows == ParsedRows(lines, lineIdx)
       IN /\ polarData = SelectSeq(rows, IsPolarRow)
          /\ \A i \in 1..Len(rows) :
                ~IsPolarRow(rows[i])
                => \E j \in 1..Len(allSqmValues) : allSqmValues[j] = rows[i].mag

\* A parse finished with a line in polarData and a parsed line left out.
C9_Witness ==
    /\ ppc = "done"
    /\ Len(polarData) > 0
    /\ Len(allSqmValues) > Len(polarData)

\* sub is a subsequence of seq: its elements occur in seq in the same order.
RECURSIVE IsSubsequence(_, _)
IsSubsequence(sub, seq) ==
    IF Len(sub) = 0 THEN TRUE
    ELSE IF Len(seq) = 0 THEN FALSE
    ELSE IF Head(sub) = Head(seq) THEN IsSubsequence(Tail(sub), Tail(seq))
    ELSE IsSubsequence(sub, Tail(seq))

\* C10: allSqmValues holds the magnitude of every parsed line, one element
\* per parsed line and in line order, whatever the altitude and azimuth;
\* polarData is a subsequence of the parsed lines in line order.
C10_InputLineOrder ==
    ppc \in {"loop", "done"}
    => LET rows == ParsedRows(lines, lineIdx)
       IN /\ allSqmValues = MagsOf(rows)
          /\ IsSubsequence(polarData, rows)

\* A parse finished with two parsed lines of different magnitudes, the
\* second of them outside the polar ranges.
C10_Witness ==
    /\ ppc = "done"
    /\ Len(allSqmValues) = 2
    /\ allSqmValues[1] # allSqmValues[2]
    /\ Len(polarData) = 1
    /\ polarData[1].mag = allSqmValues[1]

\* Number of whitespace-separated fields on a line.
FieldCount(line) ==
    Cardinality({i \in 1..Len(line) :
                    ~IsWhitespace(line[i]) /\ (i = 1 \/ IsWhitespace(line[i - 1]))})

\* C11: a step that reads a line of fewer than 9 fields raises nothing and
\* changes none of allSqmValues, polarData and sqmValuesForMedian; the loop
\* goes on to the next line.
C11_ShortLinesDropped ==
    [][(AtLine /\ FieldCount(CurrentLine) < 9)
       => /\ UNCHANGED <<allSqmValues, polarData, sqmValuesForMedian>>
          /\ ppc' = "loop"
          /\ lineIdx' = lineIdx + 1]_vars

\* A parse finished whose first line has 8 fields and whose second line
\* was parsed.
C11_Witness ==
    /\ ppc = "done"
    /\ Len(lines) = 2
    /\ FieldCount(lines[1]) = 8
    /\ Len(processedData.allSqmValues) = 1

\* C12: the parse of a text made of comment and blank lines only has a
\* null median and empty allSqmValues and polarData.
C12_CommentsAndBlanksOnly ==
    (ppc = "done" /\ \A i \in 1..Len(lines) : IsBlankLine(lines[i]) \/ IsCommentLine(lines[i]))
    => processedData = [medianSqm |-> Null, allSqmValues |-> <<>>, polarData |-> <<>>]

\* A parse finished on a blank line followed by a comment of 9 fields.
C12_Witness ==
    /\ ppc = "done"
    /\ Len(lines) = 2
    /\ IsBlankLine(lines[1])
    /\ IsCommentLine(lines[2]) /\ FieldCount(lines[2]) = 9

-----------------------------------------------------------------------------
(* calculateMedian called on its own (specification SpecMedian)            *)

MaxNumbers == 4

MedianValues == {Fin(1000), Fin(2000), Fin(3000), Fin(10000)}

\* Every array of at most MaxNumbers values, and the missing argument.
MedianArguments ==
    {NoArgument}
    \cup UNION { { ArrayArgument(a) : a \in [1..n -> MedianValues] } : n \in 0..MaxNumbers }

\* if (!numbers || numbers.length === 0) return null; otherwise the rest of
\* calculateMedian.
calculateMedianOf(argument) ==
    IF argument.missing THEN Null ELSE calculateMedian(argument.items)

\* Mutant of ArgumentAfterCall: the argument itself is sorted.
ArgumentSortedInPlace(argument) == [argument EXCEPT !.items = SortNumeric(@)]

\* The caller's array after the call: sort() ran on the copy [...numbers],
\* so the argument is as it was.
ArgumentAfterCall(argument) == argument

MedianCall ==
    /\ mpc = "call"
    /\ medianResult' = calculateMedianOf(numbers)
    /\ numbers' = ArgumentAfterCall(numbers)
    /\ mpc' = "returned"
    /\ UNCHANGED <<numbersAtCall, histVars, markerVars, parseVars, pageVars,
                   serviceVars, loadVars>>

InitMedian ==
    /\ mpc = "call" /\ numbers \in MedianArguments /\ numbersAtCall = numbers
    /\ medianResult = Null
    /\ ParseIdle /\ ServiceIdle /\ HistIdle /\ MarkerIdle /\ LoadIdle
    /\ PageIdle

NextMedian == MedianCall

SpecMedian == InitMedian /\ [][NextMedian]_vars

\* Number of elements of a below x, and not above x.
CountBelow(a, x) == Cardinality({i \in 1..Len(a) : a[i].v < x.v})
CountUpTo(a, x) == Cardinality({i \in 1..Len(a) : a[i].v <= x.v})

\* x is the element at position p (from 1) of the ascending order of a.
IsAtRank(a, x, p) ==
    /\ \E i \in 1..Len(a) : a[i] = x
    /\ CountBelow(a, x) < p
    /\ CountUpTo(a, x) >= p

\* C13: null for an empty or missing argument; for an odd count the middle
\* element of the ascending order; for an even count the mean of the two
\* middle elements.
C13_MedianContract ==
    mpc = "returned"
    => LET a == numbersAtCall.items
           n == Len(a)
       IN IF numbersAtCall.missing \/ n = 0 THEN medianResult = Null
          ELSE IF n % 2 = 1 THEN IsAtRank(a, medianResult, (n + 1) \div 2)
          ELSE /\ medianResult.k = "fin"
               /\ \E i, j \in 1..n :
                    /\ IsAtRank(a, a[i], n \div 2)
                    /\ IsAtRank(a, a[j], n \div 2 + 1)
                    /\ 2 * medianResult.v = a[i].v + a[j].v

\* The median of an unsorted array of four values was returned.
C13_Witness ==
    /\ mpc = "returned"
    /\ numbersAtCall.items = <<Fin(10000), Fin(1000), Fin(3000), Fin(2000)>>
    /\ medianResult = Fin(2500)

\* C14: after the call the caller's array holds the same elements in the
\* same order as when the call was made.
C14_ArgumentNotMutated ==
    mpc = "returned" => numbers = numbersAtCall

\* The call returned for an array that was not in ascending order.
C14_Witness ==
    /\ mpc = "returned"
    /\ Len(numbers.items) >= 2
    /\ \E i \in 1..(Len(numbers.items) - 1) : numbers.items[i].v > numbers.items[i + 1].v
    /\ medianResult # Null

-----------------------------------------------------------------------------
(* Number.prototype.toFixed                                                *)

DigitChar(d) ==
    CASE d = 0 -> "0" [] d = 1 -> "1" [] d = 2 -> "2" [] d = 3 -> "3"
      [] d = 4 -> "4" [] d = 5 -> "5" [] d = 6 -> "6" [] d = 7 -> "7"
      [] d = 8 -> "8" [] d = 9 -> "9"

\* The decimal digits of a natural number, without leading zeros.
RECURSIVE DigitsOf(_)
DigitsOf(n) ==
    IF n < 10 THEN <<DigitChar(n)>>
    ELSE DigitsOf(n \div 10) \o <<DigitChar(n % 10)>>

\* The last `width` decimal digits of n, with leading zeros.
RECURSIVE PaddedDigits(_, _)
PaddedDigits(n, width) ==
    IF width = 0 THEN <<>>
    ELSE PaddedDigits(n \div 10, width - 1) \o <<DigitChar(n % 10)>>

\* x.toFixed(digits) for digits in 1..3: the value rounded to that many
\* decimals (a tie at the next decimal rounds up here; in the runtime it
\* follows the binary expansion of x), and the names of the non-finite
\* doubles.
toFixed(x, digits) ==
    IF x.k = "nan" THEN <<"N", "a", "N">>
    ELSE IF x.k = "inf"
         THEN (IF x.v < 0 THEN <<"-">> ELSE <<>>) \o InfinityLiteral
    ELSE LET unit   == 10 ^ (3 - digits)
             abs    == IF x.v < 0 THEN 0 - x.v ELSE x.v
             scaled == (2 * abs + unit) \div (2 * unit)
             whole  == scaled \div (10 ^ digits)
             frac   == scaled % (10 ^ digits)
         IN (IF x.v < 0 /\ scaled > 0 THEN <<"-">> ELSE <<>>)
            \o DigitsOf(whole) \o <<".">> \o PaddedDigits(frac, digits)

-----------------------------------------------------------------------------
(* createHistogram: the labels and the bucketing of the values             *)

\* binWidth = 0.2, minRange = 16.0 and maxRange = 22.0, in thousandths.
binWidth == 200
minRange == 16000
maxRange == 22000

\* Math.round((maxRange - minRange) / binWidth)
numCoreBins == (2 * (maxRange - minRange) + binWidth) \div (2 * binWidth)

\* labels.push(`${start.toFixed(1)}-${end.toFixed(1)}`) for i below n.
RECURSIVE CoreLabels(_)
CoreLabels(n) ==
    IF n = 0 THEN <<>>
    ELSE LET start == minRange + (n - 1) * binWidth
             end   == start + binWidth
         IN CoreLabels(n - 1)
            \o << toFixed(Fin(start), 1) \o <<"-">> \o toFixed(Fin(end), 1) >>

\* ['<16', the labels of the core bins, '>22']
labels == << <<"<", "1", "6">> >> \o CoreLabels(numCoreBins) \o << <<">", "2", "2">> >>

\* Array(labels.length).fill(0)
EmptyBins == [i \in 1..Len(labels) |-> 0]

\* No bin is incremented.
NoBin == -1

\* Mutant of BinFor: a value equal to maxRange is not sent to the last bin.
BinForAboveOnly(val) ==
    IF isNaN(val) THEN NoBin
    ELSE IF Gt(Fin(minRange), val) THEN 0
    ELSE IF Gt(val, Fin(maxRange)) THEN Len(labels) - 1
    ELSE LET binIndex == IF val.k = "fin" THEN (val.v - minRange) \div binWidth + 1 ELSE NoBin
         IN IF binIndex > 0 /\ binIndex < Len(labels) - 1 THEN binIndex
            ELSE IF val = Fin(minRange) THEN 1
            ELSE NoBin

\* Mutant of BinFor: the first core bin is not reached by the index test.
BinForAfterFirst(val) ==
    IF isNaN(val) THEN NoBin
    ELSE IF Gt(Fin(minRange), val) THEN 0
    ELSE IF Geq(val, Fin(maxRange)) THEN Len(labels) - 1
    ELSE LET binIndex == (val.v - minRange) \div binWidth + 1
         IN IF binIndex > 1 /\ binIndex < Len(labels) - 1 THEN binIndex
            ELSE IF val = Fin(minRange) THEN 1
            ELSE NoBin

\* The body of sqmValues.forEach: the index (from 0) of the bin that val
\* increments, or NoBin.
BinFor(val) ==
    IF isNaN(val) THEN NoBin
    ELSE IF Gt(Fin(minRange), val) THEN 0
    ELSE IF Geq(val, Fin(maxRange)) THEN Len(labels) - 1
    ELSE LET binIndex == (val.v - minRange) \div binWidth + 1
         IN IF binIndex > 0 /\ binIndex < Len(labels) - 1 THEN binIndex
            ELSE IF val = Fin(minRange) THEN 1
            ELSE NoBin

\* bins[index]++
Increment(counts, index) ==
    IF index = NoBin THEN counts ELSE [counts EXCEPT ![index + 1] = @ + 1]

\* The guard at the top: nothing to draw for a missing or empty array.
HistReturnEarly ==
    /\ hpc = "call"
    /\ sqmValues.missing \/ Len(sqmValues.items) = 0
    /\ hpc' = "done"
    /\ UNCHANGED <<sqmValues, valueIdx, bins, medianVars, markerVars, parseVars, pageVars,
                   serviceVars, loadVars>>

\* The labels and the zeroed bins.
HistStart ==
    /\ hpc = "call"
    /\ ~(sqmValues.missing \/ Len(sqmValues.items) = 0)
    /\ bins' = EmptyBins
    /\ valueIdx' = 0
    /\ hpc' = "loop"
    /\ UNCHANGED <<sqmValues, medianVars, markerVars, parseVars, pageVars,
                   serviceVars, loadVars>>

\* One callback of sqmValues.forEach.
HistVisit ==
    /\ hpc = "loop"
    /\ valueIdx < Len(sqmValues.items)
    /\ bins' = Increment(bins, BinFor(sqmValues.items[valueIdx + 1]))
    /\ valueIdx' = valueIdx + 1
    /\ UNCHANGED <<hpc, sqmValues, medianVars, markerVars, parseVars, pageVars,
                   serviceVars, loadVars>>

\* The chart is built from labels and bins.
HistFinish ==
    /\ hpc = "loop"
    /\ valueIdx = Len(sqmValues.items)
    /\ hpc' = "done"
    /\ UNCHANGED <<sqmValues, valueIdx, bins, medianVars, markerVars, parseVars, pageVars,
                   serviceVars, loadVars>>

MaxValues == 2

HistValues ==
    { Fin(15900), Fin(16000), Fin(16100), Fin(19000), Fin(21990), Fin(22000),
      Fin(22500), NaN, PosInf, NegInf }

HistArguments ==
    {NoArgument}
    \cup UNION { { ArrayArgument(a) : a \in [1..n -> HistValues] } : n \in 0..MaxValues }

InitHistogram ==
    /\ hpc = "call" /\ sqmValues \in HistArguments /\ valueIdx = 0 /\ bins = <<>>
    /\ ParseIdle /\ ServiceIdle /\ MedianIdle /\ MarkerIdle /\ LoadIdle
    /\ PageIdle

NextHistogram == HistReturnEarly \/ HistStart \/ HistVisit \/ HistFinish

SpecHistogram == InitHistogram /\ [][NextHistogram]_vars

\* The bucket (from 0) that the bucketing rule gives a value that is not
\* NaN: 0 below 16.0, the last at or above 22.0, and between them the
\* bucket k with 16.0 + (k - 1) * 0.2 <= v < 16.0 + k * 0.2.
BucketOf(v) ==
    IF v.k = "inf" THEN (IF v.v < 0 THEN 0 ELSE 31)
    ELSE IF v.v < 16000 THEN 0
    ELSE IF v.v >= 22000 THEN 31
    ELSE CHOOSE k \in 1..30 : 16000 + (k - 1) * 200 <= v.v /\ v.v < 16000 + k * 200

\* The forEach is about to visit a value.
AtValue == hpc = "loop" /\ valueIdx < Len(sqmValues.items)

RECURSIVE SumOf(_)
SumOf(counts) == IF Len(counts) = 0 THEN 0 ELSE Head(counts) + SumOf(Tail(counts))

\* C16: the counts of the buckets add up to the number of visited values
\* that are not NaN.
C16_CountsSumToNonNaN ==
    hpc \in {"loop", "done"} /\ bins # <<>>
    => SumOf(bins) = Cardinality({i \in 1..valueIdx : sqmValues.items[i].k # "nan"})

\* A histogram was finished over a NaN and a value that is not NaN.
C16_Witness ==
    /\ hpc = "done"
    /\ Len(sqmValues.items) = 2
    /\ sqmValues.items[1] = NaN
    /\ sqmValues.items[2] # NaN
    /\ SumOf(bins) = 1

-----------------------------------------------------------------------------
(* The map marker of an item: processPanoItem's medianSqm and initMap      *)

NotAvailable == <<"N", "/", "A">>

\* medianSqm: sqmResult.medianSqm !== null ? sqmResult.medianSqm.toFixed(2) : "N/A"
ItemMedianSqm(median) == IF median # Null THEN toFixed(median, 2) ELSE NotAvailable

\* Mutant of MarkerColorFor: the darkest class starts above 21.76.
MarkerColorForStrict(medianSqm) ==
    LET representativeSqm == parseFloat(medianSqm)
    IN IF isNaN(representativeSqm) THEN "#808080"
       ELSE IF Gt(representativeSqm, Fin(21760)) THEN "#000000"
       ELSE IF Geq(representativeSqm, Fin(21600)) THEN "#4D4D4D"
       ELSE IF Geq(representativeSqm, Fin(21300)) THEN "#1F3A75"
       ELSE IF Geq(representativeSqm, Fin(20800)) THEN "#004EB3"
       ELSE IF Geq(representativeSqm, Fin(20300)) THEN "#2E8A00"
       ELSE IF Geq(representativeSqm, Fin(19250)) THEN "#DADA00"
       ELSE IF Geq(representativeSqm, Fin(18500)) THEN "#FF5600"
       ELSE IF Geq(representativeSqm, Fin(18000)) THEN "#DF73FF"
       ELSE "#E5C9FF"

\* The colour initMap gives the marker of an item with this medianSqm.
MarkerColorFor(medianSqm) ==
    LET representativeSqm == parseFloat(medianSqm)
    IN IF isNaN(representativeSqm) THEN "#808080"
       ELSE IF Geq(representativeSqm, Fin(21760)) THEN "#000000"
       ELSE IF Geq(representativeSqm, Fin(21600)) THEN "#4D4D4D"
       ELSE IF Geq(representativeSqm, Fin(21300)) THEN "#1F3A75"
       ELSE IF Geq(representativeSqm, Fin(20800)) THEN "#004EB3"
       ELSE IF Geq(representativeSqm, Fin(20300)) THEN "#2E8A00"
       ELSE IF Geq(representativeSqm, Fin(19250)) THEN "#DADA00"
       ELSE IF Geq(representativeSqm, Fin(18500)) THEN "#FF5600"
       ELSE IF Geq(representativeSqm, Fin(18000)) THEN "#DF73FF"
       ELSE "#E5C9FF"

\* processPanoItem builds the item from the result of fetchAndParseSqm.
FormatMedian ==
    /\ kpc = "raw"
    /\ itemMedianSqm' = ItemMedianSqm(sqmResultMedian)
    /\ kpc' = "item"
    /\ UNCHANGED <<sqmResultMedian, markerColor, medianVars, histVars, parseVars, pageVars,
                   serviceVars, loadVars>>

\* initMap picks the colour of the item's marker.
ColourMarker ==
    /\ kpc = "item"
    /\ markerColor' = MarkerColorFor(itemMedianSqm)
    /\ kpc' = "marker"
    /\ UNCHANGED <<sqmResultMedian, itemMedianSqm, medianVars, histVars, parseVars, pageVars,
                   serviceVars, loadVars>>

\* The lower bounds of the classes, in thousandths.
ClassLowerBounds == {18000, 18500, 19250, 20300, 20800, 21300, 21600, 21760}

\* Medians at, just below and just above every class bound, the null of a
\* file without high-altitude lines, and the non-finite doubles.
MarkerMedians ==
    {Null, NaN, PosInf, NegInf, Fin(0), Fin(-1000), Fin(25000)}
    \cup { Fin(b + d) : b \in ClassLowerBounds, d \in {-10, -4, 0, 4, 10} }

InitMarker ==
    /\ kpc = "raw" /\ sqmResultMedian \in MarkerMedians
    /\ itemMedianSqm = <<>> /\ markerColor = ""
    /\ ParseIdle /\ ServiceIdle /\ MedianIdle /\ HistIdle /\ LoadIdle
    /\ PageIdle

NextMarker == FormatMedian \/ ColourMarker

SpecMarker == InitMarker /\ [][NextMarker]_vars

\* The colours of the nine classes from the brightest sky (below 18.0) to
\* the darkest (21.76 and above), and the colour of "no data".
ClassColours ==
    << "#E5C9FF", "#DF73FF", "#FF5600", "#DADA00", "#2E8A00", "#004EB3",
       "#1F3A75", "#4D4D4D", "#000000" >>

NoDataColour == "#808080"

\* The item's median as a number of hundredths, for a finite median.
Hundredths(x) == (2 * x.v + 10) \div 20

\* The class (from 1, the brightest) of a numeric median: one more than
\* the number of lower bounds it reaches.
ClassOf(x) ==
    IF x.k = "inf" THEN (IF x.v > 0 THEN 9 ELSE 1)
    ELSE 1 + Cardinality({b \in ClassLowerBounds : b <= 10 * Hundredths(x)})

\* C20: a missing median is shown as "N/A" and coloured "no data"; a
\* numeric median is coloured by the one class whose bounds hold it, the
\* lower bound included, so the class never falls as the median rises.
C20_MarkerColourClasses ==
    kpc = "marker"
    => /\ sqmResultMedian = Null
          => itemMedianSqm = <<"N", "/", "A">> /\ markerColor = NoDataColour
       /\ sqmResultMedian.k = "nan" => markerColor = NoDataColour
       /\ sqmResultMedian.k \in {"fin", "inf"}
          => markerColor = ClassColours[ClassOf(sqmResultMedian)]

\* A median equal to the bound 21.76 got the colour of the darkest class.
C20_Witness ==
    /\ kpc = "marker"
    /\ sqmResultMedian = Fin(21760)
    /\ itemMedianSqm = <<"2", "1", ".", "7", "6">>
    /\ markerColor = "#000000"

-----------------------------------------------------------------------------
(* loadAndProcessData, initializeUI and displayGlobalErrorMessage          *)

MaxItems == 2

MAX_FEATURED_PANORAMAS == 6

\* The values of the parameter MAX_FEATURED_PANORAMAS_CONFIG: the one
\* script.js passes, and one small enough to leave items that are not
\* featured.
FeaturedConfigs == {1, MAX_FEATURED_PANORAMAS}

PanoItem(url) == [sqmFileUrl |-> url]

RECURSIVE SeqsUpTo(_, _)
SeqsUpTo(S, n) ==
    IF n = 0 THEN {<<>>}
    ELSE LET shorter == SeqsUpTo(S, n - 1)
         IN shorter \cup { Append(q, x) : q \in shorter, x \in S }

\* What data/manifest.json and data/astro_manifest.json may hold.
PanoManifests == SeqsUpTo({ PanoItem(u) : u \in Urls }, MaxItems)
AstroManifests == { <<>>, << [imageUrl |-> "astro/m31.jpg"] >> }

\* How a fetch of a manifest settles: a response that is ok, a response
\* with an HTTP error status, or a rejection (network error).
FetchOutcomes == {"ok", "http", "network"}

Min(a, b) == IF a <= b THEN a ELSE b

\* const featuredItemsCount = Math.min(panoManifest.length, MAX_FEATURED_PANORAMAS_CONFIG)
featuredItemsCount == Min(Len(panoManifest), maxFeatured)

\* The object processPanoItem returns for an item and its sqmResult.
ProcessedItem(item, sqmResult, isFeaturedFlag) ==
    [sqmFileUrl |-> item.sqmFileUrl,
     medianSqm |-> ItemMedianSqm(sqmResult.medianSqm),
     allSqmValues |-> sqmResult.allSqmValues,
     polarData |-> sqmResult.polarData,
     isFeatured |-> isFeaturedFlag]

\* Mutant of AllSettled: Promise.all does not wait for its promises.
AllSettledNoWait(cs, from, to) == TRUE

\* await Promise.all(...) over the processPanoItem promises from..to can
\* go on: each of them has settled.
AllSettled(cs, from, to) == \A i \in from..to : cs[i].pc = "done"

AnyRejected(cs, from, to) == \E i \in from..to : cs[i].promise.state = "rejected"

\* displayGlobalErrorMessage(message), called from the catch block.
CatchBlock ==
    /\ lpc' = "failed"
    /\ errorBanner' = TRUE
    /\ errorDisplays' = errorDisplays + 1

\* The two .map(item => processPanoItem(item, ...)) calls: item i runs
\* fetchAndParseSqm(item.sqmFileUrl) up to its await, as call i.
IssueAll(manifest) ==
    calls' = [c \in Calls |->
                IF c <= Len(manifest)
                THEN Invoked(calls[c], sqmCache, manifest[c].sqmFileUrl)
                ELSE calls[c]]

\* initializeUI(allData): takes the data and clears the global error message.
initializeUI(allData) ==
    /\ uiData' = allData
    /\ errorBanner' = FALSE

\* DOMContentLoaded: loadAndProcessData(...) runs up to await Promise.all
\* of the two manifest fetches.
LoadStart(config) ==
    /\ lpc = "start"
    /\ lpc' = "awaitManifests"
    /\ maxFeatured' = config
    /\ panoFetch' = "pending" /\ astroFetch' = "pending"
    /\ UNCHANGED <<panoManifest, astroManifest, uiData, errorBanner, errorDisplays,
                   parseVars, pageVars, serviceVars, statVars>>

PanoFetchSettles(outcome) ==
    /\ panoFetch = "pending"
    /\ panoFetch' = outcome
    /\ UNCHANGED <<lpc, astroFetch, panoManifest, astroManifest, maxFeatured, uiData,
                   errorBanner, errorDisplays, parseVars, pageVars, serviceVars, statVars>>

AstroFetchSettles(outcome) ==
    /\ astroFetch = "pending"
    /\ astroFetch' = outcome
    /\ UNCHANGED <<lpc, panoFetch, panoManifest, astroManifest, maxFeatured, uiData,
                   errorBanner, errorDisplays, parseVars, pageVars, serviceVars, statVars>>

\* Mutant of ResponseNotOk: the status of the response is not looked at.
ResponseStatusIgnored(outcome) == FALSE

\* if (!panoManifestResponse.ok), for a fetch that has settled
ResponseNotOk(outcome) == outcome # "ok"

\* Promise.all of the manifest fetches settles: it rejects as soon as one
\* fetch rejects, and resolves when both have a response; a panorama
\* response that is not ok is thrown.
ManifestsSettle ==
    /\ lpc = "awaitManifests"
    /\ \/ "network" \in {panoFetch, astroFetch}
       \/ "pending" \notin {panoFetch, astroFetch}
    /\ IF "network" \in {panoFetch, astroFetch} \/ ResponseNotOk(panoFetch)
       THEN CatchBlock
       ELSE lpc' = "awaitPanoJson" /\ UNCHANGED <<errorBanner, errorDisplays>>
    /\ UNCHANGED <<panoFetch, astroFetch, panoManifest, astroManifest, maxFeatured,
                   uiData, parseVars, pageVars, serviceVars, statVars>>

\* panoManifestResponse.json() rejects (the body is not JSON).
PanoJsonRejects ==
    /\ lpc = "awaitPanoJson"
    /\ CatchBlock
    /\ UNCHANGED <<panoFetch, astroFetch, panoManifest, astroManifest, maxFeatured,
                   uiData, parseVars, pageVars, serviceVars, statVars>>

\* panoManifestResponse.json() resolves. With an astro response that is
\* not ok the astro manifest stays [] (console.warn only) and the items
\* are processed at once.
PanoJsonResolves(manifest) ==
    /\ lpc = "awaitPanoJson"
    /\ panoManifest' = manifest
    /\ IF astroFetch = "ok"
       THEN lpc' = "awaitAstroJson" /\ UNCHANGED calls
       ELSE lpc' = "awaitFeatured" /\ IssueAll(manifest)
    /\ UNCHANGED <<panoFetch, astroFetch, astroManifest, maxFeatured, uiData,
                   errorBanner, errorDisplays, parseVars, pageVars, sqmCache, statVars>>

\* astroManifestResponse.json() rejects.
AstroJsonRejects ==
    /\ lpc = "awaitAstroJson"
    /\ CatchBlock
    /\ UNCHANGED <<panoFetch, astroFetch, panoManifest, astroManifest, maxFeatured,
                   uiData, parseVars, pageVars, serviceVars, statVars>>

\* astroManifestResponse.json() resolves; the items are processed.
AstroJsonResolves(manifest) ==
    /\ lpc = "awaitAstroJson"
    /\ astroManifest' = manifest
    /\ lpc' = "awaitFeatured"
    /\ IssueAll(panoManifest)
    /\ UNCHANGED <<panoFetch, astroFetch, panoManifest, maxFeatured, uiData,
                   errorBanner, errorDisplays, parseVars, pageVars, sqmCache, statVars>>

\* await Promise.all(featuredPanoProcessingPromises) goes on.
FeaturedSettled ==
    /\ lpc = "awaitFeatured"
    /\ \/ AllSettled(calls, 1, featuredItemsCount)
       \/ AnyRejected(calls, 1, featuredItemsCount)
    /\ IF AnyRejected(calls, 1, featuredItemsCount)
       THEN CatchBlock
       ELSE lpc' = "awaitRemaining" /\ UNCHANGED <<errorBanner, errorDisplays>>
    /\ UNCHANGED <<panoFetch, astroFetch, panoManifest, astroManifest, maxFeatured,
                   uiData, parseVars, pageVars, serviceVars, statVars>>

\* Mutant of processedPanoData: [...remainingPanoData, ...featuredPanoData].
processedPanoDataRemainingFirst ==
    LET n == Len(panoManifest)
        k == featuredItemsCount
        source(i) == IF i <= n - k THEN i + k ELSE i - (n - k)
    IN [i \in 1..n |->
            ProcessedItem(panoManifest[source(i)], calls[source(i)].promise.value,
                          source(i) <= k)]

\* The items as processPanoItem returned them, in manifest order.
processedPanoData ==
    [i \in 1..Len(panoManifest) |->
        ProcessedItem(panoManifest[i], calls[i].promise.value, i <= featuredItemsCount)]

\* await Promise.all(remainingPanoProcessingPromises) goes on, and
\* initializeUI is called with the processed data.
RemainingSettled ==
    /\ lpc = "awaitRemaining"
    /\ \/ AllSettled(calls, featuredItemsCount + 1, Len(panoManifest))
       \/ AnyRejected(calls, featuredItemsCount + 1, Len(panoManifest))
    /\ IF AnyRejected(calls, featuredItemsCount + 1, Len(panoManifest))
       THEN CatchBlock /\ UNCHANGED uiData
       ELSE /\ initializeUI([panoData |-> processedPanoData,
                             astroData |-> astroManifest])
            /\ lpc' = "done"
            /\ UNCHANGED errorDisplays
    /\ UNCHANGED <<panoFetch, astroFetch, panoManifest, astroManifest, maxFeatured,
                   parseVars, pageVars, serviceVars, statVars>>

InitLoad ==
    /\ lpc = "start" /\ panoFetch = "none" /\ astroFetch = "none"
    /\ panoManifest = <<>> /\ astroManifest = <<>> /\ maxFeatured = 0
    /\ uiData = NoData /\ errorBanner = FALSE /\ errorDisplays = 0
    /\ ParseIdle /\ ServiceIdle /\ MedianIdle /\ HistIdle /\ MarkerIdle /\ PageIdle

\* The page load: the manifests and the measurement files of the items
\* arrive in any order and with any outcome.
NextLoad ==
    \/ \E config \in FeaturedConfigs : LoadStart(config)
    \/ \E outcome \in FetchOutcomes : PanoFetchSettles(outcome)
    \/ \E outcome \in FetchOutcomes : AstroFetchSettles(outcome)
    \/ ManifestsSettle
    \/ PanoJsonRejects
    \/ \E manifest \in PanoManifests : PanoJsonResolves(manifest)
    \/ AstroJsonRejects
    \/ \E manifest \in AstroManifests : AstroJsonResolves(manifest)
    \/ FeaturedSettled
    \/ RemainingSettled
    \/ \E c \in Calls : FetchRejects(c)
    \/ \E c \in Calls, ok \in BOOLEAN : FetchResponds(c, ok)
    \/ \E c \in Calls : TextRejects(c)
    \/ \E c \in Calls, body \in SqmBodies : TextResolves(c, body)

SpecLoad == InitLoad /\ [][NextLoad]_vars

-----------------------------------------------------------------------------
(* Claims about the page load (SpecLoad)                                   *)

\* The calls of fetchAndParseSqm made for the items of the manifest.
ItemCalls == 1..Len(panoManifest)

InFlight(c) == calls[c].pc \in {"awaitFetch", "awaitText"}

\* C18: when initializeUI has been called, the SQM fetch of every item of
\* the manifest has settled, by success or by failure: no call is still
\* waiting for its response or its body, and the UI holds, for every item
\* of the manifest, the settled result of that item's call.
C18_UiOnlyAfterAllSettled ==
    uiData # NoData
    => /\ \A c \in Calls : ~InFlight(c)
       /\ Len(uiData.panoData) = Len(panoManifest)
       /\ \A i \in ItemCalls :
            /\ calls[i].pc = "done"
            /\ calls[i].fetches = 1
            /\ calls[i].promise.state = "fulfilled"
            /\ uiData.panoData[i].allSqmValues = calls[i].promise.value.allSqmValues
            /\ uiData.panoData[i].polarData = calls[i].promise.value.polarData

\* The UI was initialised with two items, one featured and one not, after
\* the fetch of the first failed with an HTTP error and the file of the
\* second was fetched and parsed.
C18_Witness ==
    /\ lpc = "done" /\ uiData # NoData
    /\ Len(panoManifest) = 2 /\ maxFeatured = 1
    /\ calls[1].error = "http" /\ calls[1].pc = "done"
    /\ calls[2].error = "" /\ calls[2].parses = 1 /\ calls[2].pc = "done"
    /\ Len(uiData.panoData) = 2
    /\ uiData.panoData[2].allSqmValues # <<>>

FetchFailed(outcome) == outcome \in {"http", "network"}

\* The load has run to its end, by initializeUI or by the catch block, and
\* no transport answer is outstanding.
LoadOver ==
    /\ lpc \in {"done", "failed"}
    /\ "pending" \notin {panoFetch, astroFetch}
    /\ \A c \in Calls : ~InFlight(c)

\* C19: once the load is over, every manifest or measurement file whose
\* fetch failed (network error or HTTP error) has been replaced by an empty
\* result handed to the UI, and the error banner is displayed.
C19_FailureSubstitutedAndBanner ==
    LoadOver
    => /\ FetchFailed(panoFetch)
          => errorBanner /\ uiData # NoData /\ uiData.panoData = <<>>
       /\ FetchFailed(astroFetch)
          => errorBanner /\ uiData # NoData /\ uiData.astroData = <<>>
       /\ \A i \in ItemCalls :
            FetchFailed(calls[i].error)
            => /\ errorBanner
               /\ uiData # NoData
               /\ uiData.panoData[i].medianSqm = NotAvailable
               /\ uiData.panoData[i].allSqmValues = <<>>
               /\ uiData.panoData[i].polarData = <<>>

\* What processPanoItem makes of item i when its file arrived as calls[i].body.
ItemFromBody(i) ==
    ProcessedItem(panoManifest[i], ParseSqmText(calls[i].body), i <= featuredItemsCount)

\* What processPanoItem makes of item i when it has no measurements.
ItemWithoutData(i) ==
    [sqmFileUrl |-> panoManifest[i].sqmFileUrl,
     medianSqm |-> <<"N", "/", "A">>,
     allSqmValues |-> <<>>,
     polarData |-> <<>>,
     isFeatured |-> i <= featuredItemsCount]

\* C22: a failed SQM fetch never sends the load to its catch block, and
\* the data handed to initializeUI has every item of the manifest: an item
\* whose fetch failed has medianSqm "N/A" and empty arrays, every other
\* item has the parse of its own file.
C22_FailedItemKeptOthersUnaffected ==
    /\ lpc = "failed" => \A c \in Calls : calls[c].pc = "idle"
    /\ uiData # NoData
       => /\ Len(uiData.panoData) = Len(panoManifest)
          /\ \A i \in ItemCalls :
                uiData.panoData[i] =
                    IF calls[i].error # "" THEN ItemWithoutData(i) ELSE ItemFromBody(i)

\* Two items: the file of the first arrived, the fetch of the second was
\* rejected; the UI got the first with its median and the second as "N/A".
C22_Witness ==
    /\ lpc = "done" /\ Len(panoManifest) = 2
    /\ calls[1].error = "" /\ calls[2].error = "network"
    /\ Len(uiData.panoData) = 2
    /\ uiData.panoData[1].medianSqm = <<"2", "0", ".", "5", "0">>
    /\ uiData.panoData[2].medianSqm = <<"N", "/", "A">>
    /\ uiData.panoData[2].allSqmValues = <<>>

\* C23: when the fetch of the astro manifest has failed (HTTP error or
\* network error) and the panorama manifest has its response, the load
\* does not leave the wait for the manifests through the catch block, and
\* the data handed to initializeUI has every panorama item and an empty
\* astroData.
C23_AstroFailureStillInitialisesUi ==
    [][(FetchFailed(astroFetch) /\ panoFetch = "ok")
       => /\ lpc = "awaitManifests" => lpc' # "failed"
          /\ uiData' # NoData
             => /\ uiData'.astroData = <<>>
                /\ Len(uiData'.panoData) = Len(panoManifest')]_vars

\* C24: once the fetch of the panorama manifest has failed (rejected, or
\* answered with a status that is not ok), no call of fetchAndParseSqm is
\* ever made, initializeUI is never called, and the load ends in its catch
\* block, which displays the global error message: once, and only once
\* however the astro fetch settles.
C24_PanoFailureStopsLoad ==
    FetchFailed(panoFetch)
    => /\ \A c \in Calls : calls[c].pc = "idle" /\ calls[c].fetches = 0
       /\ uiData = NoData
       /\ lpc \in {"awaitManifests", "failed"}
       /\ lpc = "awaitManifests" => errorDisplays = 0
       /\ lpc = "failed" => errorDisplays = 1 /\ errorBanner

\* The panorama manifest was answered with an HTTP error and the astro
\* manifest with an ok response: the load is over with the message shown.
C24_Witness ==
    /\ panoFetch = "http" /\ astroFetch = "ok"
    /\ lpc = "failed" /\ errorDisplays = 1 /\ errorBanner
    /\ uiData = NoData

\* C25: the panoData handed to initializeUI has, at each position, the
\* item at that position of the manifest, whatever the order in which the
\* files arrived; the items at the first min(length, maxFeatured) positions
\* are featured and no other is.
C25_ManifestOrderAndFeatured ==
    uiData # NoData
    => /\ Len(uiData.panoData) = Len(panoManifest)
       /\ \A i \in 1..Len(uiData.panoData) :
            /\ uiData.panoData[i].sqmFileUrl = panoManifest[i].sqmFileUrl
            /\ uiData.panoData[i].isFeatured
                   = (i <= Len(panoManifest) /\ i <= maxFeatured)

\* A manifest of b then a with one featured place: the UI got b, featured,
\* then a, not featured.
C25_Witness ==
    /\ lpc = "done" /\ maxFeatured = 1
    /\ panoManifest = << [sqmFileUrl |-> "sqm/b.txt"], [sqmFileUrl |-> "sqm/a.txt"] >>
    /\ Len(uiData.panoData) = 2
    /\ uiData.panoData[1].sqmFileUrl = "sqm/b.txt" /\ uiData.panoData[1].isFeatured
    /\ uiData.panoData[2].sqmFileUrl = "sqm/a.txt" /\ ~uiData.panoData[2].isFeatured

-----------------------------------------------------------------------------
(* The lightbox of the gallery service                                     *)

MaxGalleryItems == 3

MaxTimers == 2

\* An astrophoto of the manifest; only its mediumImageName is modelled.
GalleryItem(n) == [mediumImageName |-> <<"photo", n>>]

\* The arrays openLightbox is called with: the first photos of the manifest.
ItemLists == { [i \in 1..n |-> GalleryItem(i)] : n \in 1..MaxGalleryItems }

\* `img/astrophotos/${item.mediumImageName}`
mediumImagePath(item) == <<"img/astrophotos/">> \o item.mediumImageName

\* The test at the head of updateLightboxView, negated.
InBounds(index, items) == ~(index < 0 \/ index >= Len(items))

\* updateLightboxView(index), with astroGalleryItems being items and
\* currentAstroGalleryIndex being indexBefore when it is called. Array
\* indices start at 0 in the source and at 1 here.
updateLightboxView(index, items, indexBefore) ==
    IF InBounds(index, items)
    THEN /\ currentAstroGalleryIndex' = index
         /\ imgSrc' = mediumImagePath(items[index + 1])
         /\ prevArrow' = (IF index = 0 THEN "none" ELSE "block")
         /\ nextArrow' = (IF index = Len(items) - 1 THEN "none" ELSE "block")
    ELSE /\ currentAstroGalleryIndex' = indexBefore
         /\ UNCHANGED <<imgSrc, prevArrow, nextArrow>>

\* The handlers of the lightbox can run while the overlay is on the page
\* and displayed.
LightboxShown == lightboxExists /\ lightboxDisplay = "flex"

\* openLightbox(index, items), from a click on a photo of a gallery.
openLightbox(index, items) ==
    /\ showTimers < MaxTimers
    /\ astroGalleryItems' = items
    /\ updateLightboxView(index, items, index)
    /\ lightboxExists' = TRUE
    /\ lightboxDisplay' = "flex"
    /\ showTimers' = showTimers + 1
    /\ bodyOverflow' = "hidden"
    /\ lightboxEvent' = "open"
    /\ UNCHANGED <<lightboxVisible, hideTimers>>
    /\ UNCHANGED <<parseVars, serviceVars, statVars, loadVars, langVars>>

\* setTimeout(() => lightbox.classList.add('visible'), 10) fires.
ShowTimerFires ==
    /\ showTimers > 0
    /\ showTimers' = showTimers - 1
    /\ lightboxVisible' = TRUE
    /\ lightboxEvent' = "showTimer"
    /\ UNCHANGED <<currentAstroGalleryIndex, astroGalleryItems, lightboxExists,
                   lightboxDisplay, imgSrc, prevArrow, nextArrow, bodyOverflow,
                   hideTimers>>
    /\ UNCHANGED <<parseVars, serviceVars, statVars, loadVars, langVars>>

\* The click handler of .lightbox-prev.
PrevClick ==
    /\ LightboxShown
    /\ IF currentAstroGalleryIndex > 0
       THEN updateLightboxView(currentAstroGalleryIndex - 1, astroGalleryItems,
                               currentAstroGalleryIndex)
       ELSE UNCHANGED <<currentAstroGalleryIndex, imgSrc, prevArrow, nextArrow>>
    /\ lightboxEvent' = "prev"
    /\ UNCHANGED <<astroGalleryItems, lightboxExists, lightboxDisplay, lightboxVisible,
                   bodyOverflow, hideTimers, showTimers>>
    /\ UNCHANGED <<parseVars, serviceVars, statVars, loadVars, langVars>>

\* The click handler of .lightbox-next.
NextClick ==
    /\ LightboxShown
    /\ IF currentAstroGalleryIndex < Len(astroGalleryItems) - 1
       THEN updateLightboxView(currentAstroGalleryIndex + 1, astroGalleryItems,
                               currentAstroGalleryIndex)
       ELSE UNCHANGED <<currentAstroGalleryIndex, imgSrc, prevArrow, nextArrow>>
    /\ lightboxEvent' = "next"
    /\ UNCHANGED <<astroGalleryItems, lightboxExists, lightboxDisplay, lightboxVisible,
                   bodyOverflow, hideTimers, showTimers>>
    /\ UNCHANGED <<parseVars, serviceVars, statVars, loadVars, langVars>>

\* Mutant of ClosedGallery: closeLightbox forgets to reset the index.
ClosedGalleryKeepsIndex == [items |-> <<>>, index |-> currentAstroGalleryIndex]

\* astroGalleryItems = []; currentAstroGalleryIndex = 0;
ClosedGallery == [items |-> <<>>, index |-> 0]

\* closeLightbox(), from the close button or a click on the overlay.
closeLightbox ==
    /\ LightboxShown
    /\ hideTimers < MaxTimers
    /\ lightboxVisible' = FALSE
    /\ hideTimers' = hideTimers + 1
    /\ bodyOverflow' = ""
    /\ astroGalleryItems' = ClosedGallery.items
    /\ currentAstroGalleryIndex' = ClosedGallery.index
    /\ lightboxEvent' = "close"
    /\ UNCHANGED <<lightboxExists, lightboxDisplay, imgSrc, prevArrow, nextArrow,
                   showTimers>>
    /\ UNCHANGED <<parseVars, serviceVars, statVars, loadVars, langVars>>

\* The 300 ms callback of closeLightbox fires.
HideTimerFires ==
    /\ hideTimers > 0
    /\ hideTimers' = hideTimers - 1
    /\ lightboxDisplay' = "none"
    /\ imgSrc' = EmptySrc
    /\ lightboxEvent' = "hideTimer"
    /\ UNCHANGED <<currentAstroGalleryIndex, astroGalleryItems, lightboxExists,
                   lightboxVisible, prevArrow, nextArrow, bodyOverflow, showTimers>>
    /\ UNCHANGED <<parseVars, serviceVars, statVars, loadVars, langVars>>

InitLightbox ==
    /\ LightboxIdle /\ LangIdle
    /\ ParseIdle /\ ServiceIdle /\ MedianIdle /\ HistIdle /\ MarkerIdle /\ LoadIdle

\* The user clicks photos, arrows and the close button in any order; the
\* timers fire at any later time.
NextLightbox ==
    \/ \E items \in ItemLists : \E index \in 0..(Len(items) - 1) :
            openLightbox(index, items)
    \/ ShowTimerFires
    \/ PrevClick
    \/ NextClick
    \/ closeLightbox
    \/ HideTimerFires

SpecLightbox == InitLightbox /\ [][NextLightbox]_vars

\* C26: the index is a position of the item list whenever the list is not
\* empty; a click on prev at position 0 and a click on next at the last
\* position leave the index (and the list) as they were; closeLightbox
\* leaves the list empty and the index 0.
C26_LightboxIndexInRange ==
    [][/\ astroGalleryItems' # <<>>
          => /\ 0 <= currentAstroGalleryIndex'
             /\ currentAstroGalleryIndex' < Len(astroGalleryItems')
       /\ (lightboxEvent' = "prev" /\ currentAstroGalleryIndex = 0)
          => UNCHANGED <<currentAstroGalleryIndex, astroGalleryItems>>
       /\ (lightboxEvent' = "next"
           /\ currentAstroGalleryIndex = Len(astroGalleryItems) - 1)
          => UNCHANGED <<currentAstroGalleryIndex, astroGalleryItems>>
       /\ lightboxEvent' = "close"
          => astroGalleryItems' = <<>> /\ currentAstroGalleryIndex' = 0]_vars

\* The lightbox was closed after the user had moved off the first photo.
C26_Witness ==
    /\ lightboxEvent = "close"
    /\ astroGalleryItems = <<>> /\ currentAstroGalleryIndex = 0
    /\ imgSrc = <<"img/astrophotos/", "photo", 3>>
    /\ prevArrow = "block" /\ nextArrow = "none"

\* C27: while the lightbox is open (openLightbox has run and closeLightbox
\* has not run since, which is when astroGalleryItems is not empty) the
\* overlay is displayed and its image has a source.
C27_OpenLightboxStaysDisplayed ==
    astroGalleryItems # <<>>
    => lightboxDisplay = "flex" /\ imgSrc # EmptySrc

-----------------------------------------------------------------------------
(* loadTranslations, applyTranslations and setLanguage                     *)

Langs == {"en", "fr", "de"}

\* `locales/${lang}.json`
LocaleUrl(lang) == <<"locales/", lang, ".json">>

\* What response.json() gives for the file of a language.
LocaleFile(lang) == [language |-> lang]

\* Mutant of ShouldFallBack: English is retried after English failed.
AlwaysFallBack(lang) == TRUE

\* if (lang !== 'en')
ShouldFallBack(lang) == lang # "en"

\* loadTranslations(lang) up to await fetch(...), as top-level call c.
StartLoad(c, lang) ==
    langCalls' = [langCalls EXCEPT ![c] =
        [pc |-> "awaitFetch", lang |-> lang, loading |-> lang,
         fetched |-> <<LocaleUrl(lang)>>, applied |-> <<>>, errors |-> <<>>]]

\* The response was not ok, or the try block threw: loadTranslations('en')
\* is called and awaited unless the language being loaded is English; the
\* call that awaits it returns when it returns.
AfterFailure(call, error) ==
    IF ShouldFallBack(call.loading)
    THEN [call EXCEPT !.pc = "awaitFetch", !.loading = "en",
                      !.fetched = Append(@, LocaleUrl("en")),
                      !.errors = Append(@, error)]
    ELSE [call EXCEPT !.pc = "done", !.errors = Append(@, error)]

\* DOMContentLoaded: loadTranslations(currentLanguage).
DomContentLoaded ==
    /\ langCalls[1].pc = "idle"
    /\ StartLoad(1, currentLanguage)
    /\ UNCHANGED <<currentLanguage, translations, documentLang>>
    /\ UNCHANGED <<parseVars, serviceVars, statVars, loadVars, lightboxVars>>

\* setLanguage(lang), from a click in the language dropdown.
setLanguage(c, lang) ==
    /\ langCalls[c].pc = "idle"
    /\ c > 1 /\ langCalls[c - 1].pc # "idle"
    /\ currentLanguage' = lang
    /\ StartLoad(c, currentLanguage')
    /\ UNCHANGED <<translations, documentLang>>
    /\ UNCHANGED <<parseVars, serviceVars, statVars, loadVars, lightboxVars>>

\* fetch(`locales/${lang}.json`) rejects.
LangFetchRejects(c) ==
    /\ langCalls[c].pc = "awaitFetch"
    /\ langCalls' = [langCalls EXCEPT ![c] = AfterFailure(@, "network")]
    /\ UNCHANGED <<currentLanguage, translations, documentLang>>
    /\ UNCHANGED <<parseVars, serviceVars, statVars, loadVars, lightboxVars>>

\* fetch(`locales/${lang}.json`) resolves to a response.
LangFetchResponds(c, ok) ==
    /\ langCalls[c].pc = "awaitFetch"
    /\ langCalls' = [langCalls EXCEPT ![c] =
            IF ok THEN [@ EXCEPT !.pc = "awaitJson"] ELSE AfterFailure(@, "http")]
    /\ UNCHANGED <<currentLanguage, translations, documentLang>>
    /\ UNCHANGED <<parseVars, serviceVars, statVars, loadVars, lightboxVars>>

\* response.json() rejects.
LangJsonRejects(c) ==
    /\ langCalls[c].pc = "awaitJson"
    /\ langCalls' = [langCalls EXCEPT ![c] = AfterFailure(@, "json")]
    /\ UNCHANGED <<currentLanguage, translations, documentLang>>
    /\ UNCHANGED <<parseVars, serviceVars, statVars, loadVars, lightboxVars>>

\* response.json() resolves: translations = ...; applyTranslations().
LangJsonResolves(c) ==
    /\ langCalls[c].pc = "awaitJson"
    /\ translations' = LocaleFile(langCalls[c].loading)
    /\ documentLang' = currentLanguage
    /\ langCalls' = [langCalls EXCEPT ![c] =
            [@ EXCEPT !.pc = "done", !.applied = Append(@, langCalls[c].loading)]]
    /\ UNCHANGED currentLanguage
    /\ UNCHANGED <<parseVars, serviceVars, statVars, loadVars, lightboxVars>>

\* currentLanguage = localStorage.getItem('language') || 'en'
InitLang ==
    /\ currentLanguage \in Langs /\ translations = NoTranslations
    /\ documentLang = "en"
    /\ langCalls = [c \in LangCalls |-> LangNotCalled]
    /\ LightboxIdle
    /\ ParseIdle /\ ServiceIdle /\ MedianIdle /\ HistIdle /\ MarkerIdle /\ LoadIdle

\* An answer of the transport to a call of loadTranslations.
LangTransportAnswers ==
    \/ \E c \in LangCalls : LangFetchRejects(c)
    \/ \E c \in LangCalls, ok \in BOOLEAN : LangFetchResponds(c, ok)
    \/ \E c \in LangCalls : LangJsonRejects(c)
    \/ \E c \in LangCalls : LangJsonResolves(c)

NextLang ==
    \/ DomContentLoaded
    \/ \E c \in LangCalls, lang \in Langs : setLanguage(c, lang)
    \/ \E c \in LangCalls : LangFetchRejects(c)
    \/ \E c \in LangCalls, ok \in BOOLEAN : LangFetchResponds(c, ok)
    \/ \E c \in LangCalls : LangJsonRejects(c)
    \/ \E c \in LangCalls : LangJsonResolves(c)

SpecLang == InitLang /\ [][NextLang]_vars

\* Every fetch and every response.json() settles at some time.
SpecLangFair == SpecLang /\ WF_vars(LangTransportAnswers)

\* The calls of loadTranslations that were made and have not returned.
LangInFlight == {c \in LangCalls : langCalls[c].pc \in {"awaitFetch", "awaitJson"}}

LangStarted == {c \in LangCalls : langCalls[c].pc # "idle"}

\* The call made last.
LastLangCall == CHOOSE c \in LangStarted : \A d \in LangStarted : d <= c

\* C28: when no call of loadTranslations is in flight and the call made
\* last (the one for currentLanguage) got and applied the file of its
\* language, the translations held are those of currentLanguage.
C28_LastLanguageWins ==
    (/\ LangStarted # {} /\ LangInFlight = {}
     /\ langCalls[LastLangCall].lang = currentLanguage
     /\ langCalls[LastLangCall].applied = <<currentLanguage>>)
    => translations = LocaleFile(currentLanguage)

\* What holds of call c at any time: it fetched the file of its language
\* first; a second fetch is of the English file and is made by a call for
\* another language only; there is no third; and a call that has returned
\* without applying the file of its language had fetched English.
FetchesOf(c) ==
    LET call == langCalls[c]
    IN /\ Len(call.fetched) <= 2
       /\ call.pc # "idle" => call.fetched[1] = LocaleUrl(call.lang)
       /\ Len(call.fetched) = 2
          => call.lang # "en" /\ call.fetched[2] = LocaleUrl("en")
       /\ (call.pc = "done" /\ call.lang # "en" /\ call.applied # <<call.lang>>)
          => Len(call.fetched) = 2

\* C29: every call of loadTranslations returns, having made at most two
\* fetches: its language, and English once if its language is not English
\* and failed; a step of a call that applies no file leaves the
\* translations as they were.
C29_LoadTranslationsTerminates ==
    /\ [](\A c \in LangCalls : FetchesOf(c))
    /\ [][\A c \in LangCalls :
            (langCalls'[c] # langCalls[c] /\ langCalls'[c].applied = langCalls[c].applied)
            => translations' = translations]_vars
    /\ \A c \in LangCalls : (langCalls[c].pc # "idle") ~> (langCalls[c].pc = "done")

\* The page was loaded with French stored: the French file was answered
\* with an HTTP error, then fetching the English file was rejected, and the
\* call has returned with the translations still empty.
C29_Witness ==
    /\ langCalls[1].lang = "fr" /\ langCalls[1].pc = "done"
    /\ langCalls[1].fetched = <<LocaleUrl("fr"), LocaleUrl("en")>>
    /\ langCalls[1].errors = <<"http", "network">>
    /\ langCalls[1].applied = <<>>
    /\ translations = NoTranslations

====
